---- MODULE Spec2Model ----
(***************************************************************************)
(* The cached CRUD server (src/unnamed/part_000): an Express application   *)
(* with one MySQL connection per request, a node-cache response cache in   *)
(* front of the GET routes, and flushAll after every successful mutation.  *)
(* A request is a task on a single-threaded event loop: it runs without    *)
(* interruption between its suspension points (createConnection, execute). *)
(* The database executes a statement at some instant between the call and  *)
(* the delivery of its result, so the statement (Execute) and the handler's *)
(* continuation (Resume) are separate steps.                               *)
(* Accented characters of the source's messages are written unaccented.    *)
(***************************************************************************)
EXTENDS Integers, FiniteSets, Sequences, TLC

\* ---------------------------------------------------------------- bounds
MaxReqs == 3
MaxInFlight == 2
MaxId == 1
TickStep == 50
MaxTime == 150

\* ------------------------------------------------------ program constants
\* stdTTL of the NodeCache instance
TTL == 100

\* ------------------------------------------------------------- JS values
Undefined == [t |-> "undefined"]
Str(s) == [t |-> "string", s |-> s]
Num(n) == [t |-> "number", n |-> n]

\* JavaScript's !v for the values a JSON body field can take here
Falsy(v) ==
    \/ v.t = "undefined"
    \/ v.t = "string" /\ v.s = ""
    \/ v.t = "number" /\ v.n = 0

\* const { f } = req.body : a field the body lacks is undefined
Field(b, f) == IF f \in DOMAIN b THEN b[f] ELSE Undefined

\* ------------------------------------------------------------ collections
Collections == {"produtos", "clientes"}
Ids == 1..MaxId

\* the columns each INSERT / UPDATE statement names
Columns(c) ==
    IF c = "produtos" THEN {"nome", "preco"}
    ELSE {"nome", "sobrenome", "email", "idade"}

NoRow == [none |-> TRUE]

ProdA == [nome |-> Str("a"), preco |-> Num(5)]
ProdB == [nome |-> Str("b"), preco |-> Num(7)]
CliA == [nome |-> Str("Ana"), sobrenome |-> Str("Silva"),
         email |-> Str("a@x.com"), idade |-> Num(30)]

\* request bodies the clients send
ProdZero == [nome |-> Str("b"), preco |-> Num(0)]
ProdNoPreco == [nome |-> Str("b")]
CliNoEmail == [nome |-> Str("Ana"), sobrenome |-> Str("Silva"), idade |-> Num(30)]

ProdBodies == {ProdB, ProdZero, ProdNoPreco}
CliBodies == {CliA, CliNoEmail}

EmptyBody == [x \in {} |-> Undefined]

\* rows the tables can hold when the server starts or after a direct change
SeedRows(c) == IF c = "produtos" THEN {ProdA} ELSE {CliA}

\* ------------------------------------------------------------------ URLs
\* req.originalUrl: the path (collection, optional id) and the query string
Url(c, i, q) == [coll |-> c, id |-> i, q |-> q]
GetUrls ==
    { Url("produtos", 0, "?x=1"), Url("produtos", 0, "?x=2"), Url("clientes", 0, "") }
    \cup { Url(c, i, "") : c \in Collections, i \in Ids }
OtherUrl == Url("outro", 0, "")

\* ----------------------------------------------------------------- state
VARIABLES
    db,         \* the tables: collection -> id -> row or NoRow
    nextId,     \* AUTO_INCREMENT counter of each table
    cache,      \* the NodeCache instance: key -> entry or NoEntry
    now,        \* Date.now() as the cache sees it
    reqs,       \* the requests in flight: slot -> request record (req, res, position)
    last,       \* the request that completed last, as it was when its response was sent
    received,   \* number of requests received so far
    openConns,  \* connections created and not closed
    applied,    \* history: successful mutating statements executed, per collection
    responded,  \* history: newest mutation of each collection whose response is sent
    deleted,    \* history: ids whose DELETE was answered with success, not created since
    app         \* the uncached server (src/app.js) run beside this one: its tables,
                \* the number of requests it has served and its last response

vars == <<db, nextId, cache, now, reqs, last, received, openConns, applied, responded,
          deleted, app>>

ReqIds == 1..MaxInFlight

\* ----------------------------------------------------------- response cache
NoEntry == [none |-> TRUE]
Keys == GetUrls \cup { Url(c, 0, "") : c \in Collections }

\* a key that drops the query string (req.path instead of req.originalUrl)
KeyPath(r) == [r.url EXCEPT !.q = ""]

\* const key = req.originalUrl
Key(r) == r.url

\* a cache.get that ignores the expiry of the entry
CacheGetNoExpiry(ch, k, t) ==
    IF ch[k] # NoEntry THEN ch[k].v ELSE Undefined

\* cache.get(key): the value of an entry that is present and not past its expiry
CacheGet(ch, k, t) ==
    IF ch[k] # NoEntry /\ ~(ch[k].t < t) THEN ch[k].v ELSE Undefined

\* cache.get deletes the entry it finds expired
CacheAfterGet(ch, k, t) ==
    IF ch[k] # NoEntry /\ ch[k].t < t THEN [ch EXCEPT ![k] = NoEntry] ELSE ch

\* a cache.set that keeps the expiry of an entry it overwrites
CacheSetKeepExpiry(ch, k, v, t, ver) ==
    [ch EXCEPT ![k] = [v |-> v, t |-> IF ch[k] # NoEntry THEN ch[k].t ELSE t + TTL,
                       ver |-> ver]]

\* cache.set(key, body) with the instance's stdTTL; ver is history (the
\* collection version the body was computed from)
CacheSet(ch, k, v, t, ver) ==
    [ch EXCEPT ![k] = [v |-> v, t |-> t + TTL, ver |-> ver]]

\* the keys the cache holds
Cached(ch) == { k \in Keys : ch[k] # NoEntry }

\* cache.flushAll()
FlushAll == [k \in Keys |-> NoEntry]

\* if (cachedResponse): every body is an object, so only undefined is falsy
Truthy(v) == v # Undefined

\* ------------------------------------------------------------- responses
NoResp == [none |-> TRUE]
NoResult == [none |-> TRUE]

RowsBody(rows) == [kind |-> "rows", rows |-> rows]
RowBody(row) == [kind |-> "row", row |-> row]
MsgBody(m) == [kind |-> "message", message |-> m]
CreatedBody(id, b, c, m) ==
    [kind |-> "created", id |-> id,
     fields |-> [f \in Columns(c) |-> Field(b, f)], message |-> m]
ErrorBody(m) == [kind |-> "error", message |-> m]

Err(m) == [message |-> m, status |-> 0]
HttpError(st, m) == [message |-> m, status |-> st]

ValidationMsg(c) ==
    IF c = "produtos" THEN "Nome e preco sao obrigatorios."
    ELSE "Nome, sobrenome, email e idade sao obrigatorios."
NotFoundMsg(c) ==
    IF c = "produtos" THEN "Produto nao encontrado" ELSE "Cliente nao encontrado"
CreatedMsg(c) ==
    IF c = "produtos" THEN "Produto criado com sucesso" ELSE "Cliente criado com sucesso"
UpdatedMsg(c) ==
    IF c = "produtos" THEN "Produto atualizado com sucesso"
    ELSE "Cliente atualizado com sucesso"
DeletedMsg(c) ==
    IF c = "produtos" THEN "Produto excluido com sucesso"
    ELSE "Cliente excluido com sucesso"
ConnectMsg == "connect ECONNREFUSED"
StatementMsg == "statement failed"

\* an error handler that answers every error with 500
ErrStatusAlways500(err) == 500

\* res.status(err.status || 500)
ErrStatus(err) == IF err.status # 0 THEN err.status ELSE 500

\* an override that sends the body first and stores it afterwards
ResJsonSendFirst(r, ch, st, body, t) ==
    IF r.overridden
    THEN [req |-> [r EXCEPT !.pc = "Done", !.status = st, !.resp = body, !.nresp = @ + 1,
                            !.sendSeq = 1, !.setSeq = 2,
                            !.overT = IF ch[Key(r)] # NoEntry THEN ch[Key(r)].t ELSE 0],
          cache |-> CacheSet(ch, Key(r), body, t, r.readVer)]
    ELSE [req |-> [r EXCEPT !.pc = "Done", !.status = st, !.resp = body, !.nresp = @ + 1,
                            !.sendSeq = 1],
          cache |-> ch]

\* res.json(body) as the request sees it: after cacheMiddleware's miss branch
\* it is the override, which stores the body under the key and then sends it.
\* The result is the pair (request, cache) after the call.
\* History: setSeq and sendSeq are the positions of cache.set and of the send
\* among the effects of the call (0: did not happen); overT is the expiry of
\* the entry that cache.set replaced (0: the key was absent).
ResJson(r, ch, st, body, t) ==
    IF r.overridden
    THEN [req |-> [r EXCEPT !.pc = "Done", !.status = st, !.resp = body, !.nresp = @ + 1,
                            !.setSeq = 1, !.sendSeq = 2,
                            !.overT = IF ch[Key(r)] # NoEntry THEN ch[Key(r)].t ELSE 0],
          cache |-> CacheSet(ch, Key(r), body, t, r.readVer)]
    ELSE [req |-> [r EXCEPT !.pc = "Done", !.status = st, !.resp = body, !.nresp = @ + 1,
                            !.sendSeq = 1],
          cache |-> ch]

\* the error handler: res.status(err.status || 500); res.send({message, error}).
\* Express's res.send hands an object body to this.json, i.e. to the override
\* when cacheMiddleware installed one.
ErrorHandler(r, ch, err, t) ==
    ResJson(r, ch, ErrStatus(err), ErrorBody(err.message), t)

\* ------------------------------------------------------------- repository
RowOut(d, c, i) == [id |-> i, f |-> d[c][i]]

\* SELECT * FROM c
SelectAll(d, c) == { RowOut(d, c, i) : i \in { j \in Ids : d[c][j] # NoRow } }

\* SELECT * FROM c WHERE id = ?
SelectById(d, c, i) == { RowOut(d, c, j) : j \in { k \in Ids : k = i /\ d[c][k] # NoRow } }

\* the values bound to the statement's placeholders
Params(b, c) == [f \in Columns(c) |-> Field(b, f)]

\* a validation that tests the first field only
InvalidNomeOnly(b, c) == Falsy(Field(b, "nome"))

\* if (!nome || !preco) / if (!nome || !sobrenome || !email || !idade)
Invalid(b, c) == \E f \in Columns(c) : Falsy(Field(b, f))

\* --------------------------------------------------------------- requests
IdleReq ==
    [pc |-> "Idle", method |-> "GET", url |-> OtherUrl, body |-> EmptyBody,
     db |-> FALSE, overridden |-> FALSE, hit |-> FALSE,
     result |-> NoResult, nstmts |-> 0, nconn |-> 0,
     status |-> 0, resp |-> NoResp, nresp |-> 0,
     arrVer |-> 0, readVer |-> 0, servedVer |-> 0, gone |-> FALSE, dropped |-> {},
     setSeq |-> 0, sendSeq |-> 0, overT |-> 0]

InFlight == { i \in ReqIds : reqs[i].pc # "Idle" }

\* A request that is Done leaves its slot and becomes the last completed one.
Settle(i, r) == [reqs EXCEPT ![i] = IF r.pc = "Done" THEN IdleReq ELSE r]
Completed(r) == IF r.pc = "Done" THEN r ELSE last

Mutating(r) == r.method \in {"POST", "PUT", "DELETE"}

\* the inputs: method, URL and body of a request
Get(u) == [method |-> "GET", url |-> u, body |-> EmptyBody]
Post(c, b) == [method |-> "POST", url |-> Url(c, 0, ""), body |-> b]
Put(c, i, b) == [method |-> "PUT", url |-> Url(c, i, ""), body |-> b]
Delete(c, i) == [method |-> "DELETE", url |-> Url(c, i, ""), body |-> EmptyBody]

Inputs ==
    { Get(u) : u \in GetUrls \cup {OtherUrl} }
    \cup { Post("produtos", b) : b \in ProdBodies }
    \cup { Post("clientes", b) : b \in CliBodies }
    \cup { Put("produtos", i, b) : i \in Ids, b \in ProdBodies }
    \cup { Put("clientes", i, b) : i \in Ids, b \in CliBodies }
    \cup { Delete(c, i) : c \in Collections, i \in Ids }

\* the uncached server while it is not run beside the cached one
AppDown ==
    [db |-> [c \in Collections |-> [i \in Ids |-> NoRow]],
     nextId |-> [c \in Collections |-> 1],
     served |-> 0, status |-> 0, resp |-> NoResp]

\* the tables when the server starts: the first ids of each are filled
InitRow(c) == IF c = "produtos" THEN ProdA ELSE CliA

Init ==
    /\ \E filled \in 0..MaxId :
          db = [c \in Collections |->
                  [i \in Ids |-> IF i <= filled THEN InitRow(c) ELSE NoRow]]
    /\ nextId = [c \in Collections |-> 1 + Cardinality({ i \in Ids : db[c][i] # NoRow })]
    /\ cache = FlushAll
    /\ now = 0
    /\ reqs = [i \in ReqIds |-> IdleReq]
    /\ last = IdleReq
    /\ received = 0
    /\ openConns = 0
    /\ applied = [c \in Collections |-> 0]
    /\ responded = [c \in Collections |-> 0]
    /\ deleted = [c \in Collections |-> {}]
    /\ app = AppDown

\* A request arrives; the connection middleware calls mysql.createConnection.
Receive(i, in) ==
    /\ reqs[i].pc = "Idle"
    /\ \A j \in ReqIds : j < i => reqs[j].pc # "Idle"
    /\ received < MaxReqs
    /\ received' = received + 1
    /\ reqs' = [reqs EXCEPT ![i] =
                  [IdleReq EXCEPT !.pc = "Received", !.method = in.method,
                                  !.url = in.url, !.body = in.body,
                                  !.nconn = 1,
                                  !.arrVer = IF in.url.coll \in Collections
                                             THEN responded[in.url.coll] ELSE 0,
                                  !.gone = /\ in.url.coll \in Collections
                                           /\ in.url.id \in deleted[in.url.coll]]]
    /\ UNCHANGED <<db, nextId, cache, now, last, openConns, applied, responded, deleted, app>>

\* The handler issues its statement: req.db.execute(...) and the await.
Issue(r) == [r EXCEPT !.pc = "Executing", !.nstmts = @ + 1]

\* a cacheMiddleware that never answers from the cache
CacheMiddlewareAlwaysMiss(r, ch, t) ==
    [req |-> Issue([r EXCEPT !.overridden = TRUE]), cache |-> CacheAfterGet(ch, Key(r), t)]

\* cacheMiddleware then the GET handler up to its await. The pair (request, cache).
CacheMiddleware(r, ch, t) ==
    LET cachedResponse == CacheGet(ch, Key(r), t)
        ch1 == CacheAfterGet(ch, Key(r), t)
    IN  IF Truthy(cachedResponse)
        THEN ResJson([r EXCEPT !.hit = TRUE, !.servedVer = ch[Key(r)].ver],
                     ch1, 200, cachedResponse, t)
        ELSE [req |-> Issue([r EXCEPT !.overridden = TRUE]), cache |-> ch1]

\* POST and PUT handlers up to their await: validation, then the statement.
ValidateThenIssue(r, ch, t) ==
    IF Invalid(r.body, r.url.coll)
    THEN ErrorHandler(r, ch, Err(ValidationMsg(r.url.coll)), t)
    ELSE [req |-> Issue(r), cache |-> ch]

\* next() after the connection: the router runs the matching route to its
\* first await, or the 404 middleware when no route matches.
Route(r, ch, t) ==
    IF r.url.coll \notin Collections
    THEN ErrorHandler(r, ch, HttpError(404, "Not Found"), t)
    ELSE IF r.method = "GET" THEN CacheMiddleware(r, ch, t)
    ELSE IF r.method = "DELETE" THEN [req |-> Issue(r), cache |-> ch]
    ELSE ValidateThenIssue(r, ch, t)

\* createConnection resolves: req.db = connection; next().
ConnectOk(i) ==
    /\ reqs[i].pc = "Received"
    /\ LET out == Route([reqs[i] EXCEPT !.db = TRUE], cache, now)
       IN  /\ reqs' = Settle(i, out.req)
           /\ last' = Completed(out.req)
           /\ cache' = out.cache
    /\ openConns' = openConns + 1
    /\ UNCHANGED <<db, nextId, now, received, applied, responded, deleted, app>>

\* a server that consults the cache before it looks at the connection
ConnectFailAfterCache(i) ==
    /\ reqs[i].pc = "Received"
    /\ LET r == reqs[i]
           out == IF r.method = "GET" /\ r.url \in GetUrls
                     /\ Truthy(CacheGet(cache, Key(r), now))
                  THEN CacheMiddleware(r, cache, now)
                  ELSE ErrorHandler(r, cache, Err(ConnectMsg), now)
       IN  /\ reqs' = Settle(i, out.req)
           /\ last' = Completed(out.req)
           /\ cache' = out.cache
    /\ UNCHANGED <<db, nextId, now, received, openConns, applied, responded, deleted, app>>

\* createConnection rejects: next(error).
ConnectFail(i) ==
    /\ reqs[i].pc = "Received"
    /\ LET out == ErrorHandler(reqs[i], cache, Err(ConnectMsg), now)
       IN  /\ reqs' = Settle(i, out.req)
           /\ last' = Completed(out.req)
           /\ cache' = out.cache
    /\ UNCHANGED <<db, nextId, now, received, openConns, applied, responded, deleted, app>>

\* ------------------------------------------------- statements at the database
OkResult(rows, affected, insertId) ==
    [ok |-> TRUE, rows |-> rows, affectedRows |-> affected, insertId |-> insertId]
FailResult == [ok |-> FALSE, rows |-> {}, affectedRows |-> 0, insertId |-> 0]

\* SELECT: the rows are read; the request remembers the version it read.
ExecSelect(i) ==
    LET r == reqs[i]
        c == r.url.coll
        rows == IF r.url.id = 0 THEN SelectAll(db, c) ELSE SelectById(db, c, r.url.id)
    IN  /\ r.method = "GET"
        /\ reqs' = [reqs EXCEPT ![i] =
                      [r EXCEPT !.pc = "Awaiting", !.result = OkResult(rows, 0, 0),
                                !.readVer = applied[c]]]
        /\ UNCHANGED <<db, nextId, applied>>

\* INSERT INTO c (...) VALUES (...): the row gets the next AUTO_INCREMENT id.
\* The table has room for MaxId ids; past it the statement can only fail.
ExecInsert(i) ==
    LET r == reqs[i]
        c == r.url.coll
        id == nextId[c]
    IN  /\ r.method = "POST"
        /\ id <= MaxId
        /\ db' = [db EXCEPT ![c][id] = Params(r.body, c)]
        /\ nextId' = [nextId EXCEPT ![c] = id + 1]
        /\ applied' = [applied EXCEPT ![c] = @ + 1]
        /\ reqs' = [reqs EXCEPT ![i] =
                      [r EXCEPT !.pc = "Awaiting", !.result = OkResult({}, 1, id),
                                !.readVer = applied[c] + 1]]

\* UPDATE c SET ... WHERE id = ?: affectedRows counts the rows matched.
ExecUpdate(i) ==
    LET r == reqs[i]
        c == r.url.coll
        id == r.url.id
        found == db[c][id] # NoRow
    IN  /\ r.method = "PUT"
        /\ db' = IF found THEN [db EXCEPT ![c][id] = Params(r.body, c)] ELSE db
        /\ applied' = IF found THEN [applied EXCEPT ![c] = @ + 1] ELSE applied
        /\ reqs' = [reqs EXCEPT ![i] =
                      [r EXCEPT !.pc = "Awaiting",
                                !.result = OkResult({}, IF found THEN 1 ELSE 0, 0),
                                !.readVer = applied'[c]]]
        /\ UNCHANGED nextId

\* DELETE FROM c WHERE id = ?
ExecDelete(i) ==
    LET r == reqs[i]
        c == r.url.coll
        id == r.url.id
        found == db[c][id] # NoRow
    IN  /\ r.method = "DELETE"
        /\ db' = IF found THEN [db EXCEPT ![c][id] = NoRow] ELSE db
        /\ applied' = IF found THEN [applied EXCEPT ![c] = @ + 1] ELSE applied
        /\ reqs' = [reqs EXCEPT ![i] =
                      [r EXCEPT !.pc = "Awaiting",
                                !.result = OkResult({}, IF found THEN 1 ELSE 0, 0),
                                !.readVer = applied'[c]]]
        /\ UNCHANGED nextId

\* The database executes the statement of request i.
ExecuteOk(i) ==
    /\ reqs[i].pc = "Executing"
    /\ \/ ExecSelect(i)
       \/ ExecInsert(i)
       \/ ExecUpdate(i)
       \/ ExecDelete(i)
    /\ deleted' = IF reqs[i].method = "POST"
                  THEN [deleted EXCEPT ![reqs[i].url.coll] = @ \ {nextId[reqs[i].url.coll]}]
                  ELSE deleted
    /\ UNCHANGED <<cache, now, last, received, openConns, responded, app>>

\* The statement fails (transport or server error): nothing is changed.
ExecuteFail(i) ==
    /\ reqs[i].pc = "Executing"
    /\ reqs' = [reqs EXCEPT ![i] =
                  [@ EXCEPT !.pc = "Awaiting", !.result = FailResult,
                            !.readVer = applied[reqs[i].url.coll]]]
    /\ UNCHANGED <<db, nextId, cache, now, last, received, openConns, applied, responded, deleted, app>>

\* a GET by id that drops the not-found case: no response and no next(error)
GetContinuationNoNext(r, ch, t) ==
    IF r.url.id = 0 THEN ResJson(r, ch, 200, RowsBody(r.result.rows), t)
    ELSE IF r.result.rows = {}
         THEN [req |-> [r EXCEPT !.pc = "Hung"], cache |-> ch]
         ELSE ResJson(r, ch, 200, RowBody(CHOOSE row \in r.result.rows : TRUE), t)

\* ------------------------------------------- the handlers after their await
\* GET /c and GET /c/:id
GetContinuation(r, ch, t) ==
    IF r.url.id = 0 THEN ResJson(r, ch, 200, RowsBody(r.result.rows), t)
    ELSE IF r.result.rows = {}
         THEN ErrorHandler(r, ch, Err(NotFoundMsg(r.url.coll)), t)
         ELSE ResJson(r, ch, 200, RowBody(CHOOSE row \in r.result.rows : TRUE), t)

\* a POST handler that forgets cache.flushAll()
PostContinuationNoFlush(r, ch, t) ==
    ResJson(r, ch, 201,
            CreatedBody(r.result.insertId, r.body, r.url.coll, CreatedMsg(r.url.coll)), t)

\* POST /c: res.status(201).json({...}); cache.flushAll()
PostContinuation(r, ch, t) ==
    LET out == ResJson(r, ch, 201,
                       CreatedBody(r.result.insertId, r.body, r.url.coll,
                                   CreatedMsg(r.url.coll)), t)
    IN  [req |-> [out.req EXCEPT !.dropped = Cached(ch)], cache |-> FlushAll]

\* PUT and DELETE handlers that flush before they look at affectedRows
WriteContinuationFlushFirst(r, ch, t) ==
    IF r.result.affectedRows = 0
    THEN ErrorHandler(r, FlushAll, Err(NotFoundMsg(r.url.coll)), t)
    ELSE LET m == IF r.method = "PUT" THEN UpdatedMsg(r.url.coll)
                  ELSE DeletedMsg(r.url.coll)
             out == ResJson(r, ch, 200, MsgBody(m), t)
         IN  [req |-> [out.req EXCEPT !.dropped = Cached(ch)], cache |-> FlushAll]

\* PUT /c/:id and DELETE /c/:id: zero affected rows is an error, else
\* res.json({message}); cache.flushAll()
WriteContinuation(r, ch, t) ==
    IF r.result.affectedRows = 0
    THEN ErrorHandler(r, ch, Err(NotFoundMsg(r.url.coll)), t)
    ELSE LET m == IF r.method = "PUT" THEN UpdatedMsg(r.url.coll)
                  ELSE DeletedMsg(r.url.coll)
             out == ResJson(r, ch, 200, MsgBody(m), t)
         IN  [req |-> [out.req EXCEPT !.dropped = Cached(ch)], cache |-> FlushAll]

\* handlers that issue their statement a second time when it fails
ContinuationRetry(r, ch, t) ==
    IF ~r.result.ok
    THEN IF r.nstmts < 2 THEN [req |-> Issue(r), cache |-> ch]
         ELSE ErrorHandler(r, ch, Err(StatementMsg), t)
    ELSE IF r.method = "GET" THEN GetContinuation(r, ch, t)
    ELSE IF r.method = "POST" THEN PostContinuation(r, ch, t)
    ELSE WriteContinuation(r, ch, t)

Continuation(r, ch, t) ==
    IF ~r.result.ok THEN ErrorHandler(r, ch, Err(StatementMsg), t)
    ELSE IF r.method = "GET" THEN GetContinuation(r, ch, t)
    ELSE IF r.method = "POST" THEN PostContinuation(r, ch, t)
    ELSE WriteContinuation(r, ch, t)

\* a successful mutation: its response is sent (status below 400)
Succeeded(r) == r.pc = "Done" /\ r.status # 0 /\ r.status < 400

\* The result of the statement is delivered and the handler runs to its end.
Resume(i) ==
    /\ reqs[i].pc = "Awaiting"
    /\ LET r == reqs[i]
           out == Continuation(r, cache, now)
       IN  /\ reqs' = Settle(i, out.req)
           /\ last' = Completed(out.req)
           /\ cache' = out.cache
           /\ responded' =
                IF Mutating(r) /\ Succeeded(out.req) /\ r.readVer > responded[r.url.coll]
                THEN [responded EXCEPT ![r.url.coll] = r.readVer]
                ELSE responded
           /\ deleted' =
                IF r.method = "DELETE" /\ Succeeded(out.req)
                THEN [deleted EXCEPT ![r.url.coll] = @ \cup {r.url.id}]
                ELSE deleted
    /\ UNCHANGED <<db, nextId, now, received, openConns, applied, app>>

\* ------------------------------------------------------------ environment
\* Time passes.
Tick ==
    /\ now + TickStep <= MaxTime
    /\ now' = now + TickStep
    /\ UNCHANGED <<db, nextId, cache, reqs, last, received, openConns, applied, responded, deleted, app>>

\* Another client of the database changes a row directly.
DirectChange(c, id, row) ==
    /\ db[c][id] # row
    /\ db' = [db EXCEPT ![c][id] = row]
    /\ nextId' = IF row # NoRow /\ nextId[c] <= id
                 THEN [nextId EXCEPT ![c] = id + 1] ELSE nextId
    /\ deleted' = IF row # NoRow THEN [deleted EXCEPT ![c] = @ \ {id}] ELSE deleted
    /\ UNCHANGED <<cache, now, reqs, last, received, openConns, applied, responded, app>>

\* ----------------------------------------------------------- specification
\* A step of a request in flight.
Step ==
    \/ \E i \in ReqIds : ConnectOk(i)
    \/ \E i \in ReqIds : ConnectFail(i)
    \/ \E i \in ReqIds : ExecuteOk(i)
    \/ \E i \in ReqIds : ExecuteFail(i)
    \/ \E i \in ReqIds : Resume(i)

\* The server under concurrent clients that send any of the inputs: up to
\* MaxInFlight requests interleave at their suspension points. All requests
\* fall within one TTL window.
Next ==
    \/ \E i \in ReqIds : \E in \in Inputs : Receive(i, in)
    \/ Step

Spec == Init /\ [][Next]_vars

\* Concurrent clients that write: every way a POST, PUT or DELETE fails
\* (a required field missing, for both entities; no row matched; the
\* statement or the connection failing) or succeeds, beside a GET that
\* fills the cache.
WriteInputs ==
    { Get(Url("produtos", 0, "?x=1")),
      Delete("produtos", 1),
      Put("clientes", 1, CliA),
      Post("produtos", ProdNoPreco),
      Put("produtos", 1, ProdNoPreco),
      Post("clientes", CliNoEmail),
      Put("clientes", 1, CliNoEmail) }

WriteNext ==
    \/ \E i \in ReqIds : \E in \in WriteInputs : Receive(i, in)
    \/ Step

WriteSpec == Init /\ [][WriteNext]_vars

\* Sequential clients: a request is received only when no other is in
\* flight, while other clients of the database change it directly.
SeqInputs ==
    { Get(Url("produtos", 0, "?x=1")),
      Get(Url("produtos", 0, "?x=2")),
      Post("produtos", ProdB),
      Put("clientes", 1, CliA),
      Delete("clientes", 1) }

SeqReceive(in) == InFlight = {} /\ Receive(1, in)

SeqNext ==
    \/ \E in \in SeqInputs : SeqReceive(in)
    \/ Step
    \/ \E c \in Collections : \E id \in Ids : \E row \in SeedRows(c) \cup {NoRow} :
          DirectChange(c, id, row)

SeqSpec == Init /\ [][SeqNext]_vars

\* The server over several TTL windows: concurrent clients that read and
\* change products while time passes.
TimedInputs ==
    { Get(Url("produtos", 0, "?x=1")),
      Get(Url("produtos", 1, "")),
      Put("produtos", 1, ProdB) }

TimedNext ==
    \/ \E i \in ReqIds : \E in \in TimedInputs : Receive(i, in)
    \/ Step
    \/ Tick

TimedSpec == Init /\ [][TimedNext]_vars

\* Concurrent clients whose requests fail in every way a request can: no
\* route, no row for the id (GET, PUT, DELETE), the connection or the
\* statement failing, beside requests that succeed.
ErrInputs ==
    { Get(OtherUrl),
      Get(Url("clientes", 1, "")),
      Post("produtos", ProdB),
      Put("produtos", 1, ProdB),
      Delete("clientes", 1) }

ErrNext ==
    \/ \E i \in ReqIds : \E in \in ErrInputs : Receive(i, in)
    \/ Step

ErrSpec == Init /\ [][ErrNext]_vars

\* Concurrent clients on a server whose connection attempts and statements
\* all settle: a request in flight eventually takes its next step (the
\* promise of createConnection or execute resolves or rejects, and the event
\* loop then runs the continuation).
FairInputs ==
    { Get(Url("produtos", 1, "")),
      Get(OtherUrl),
      Post("produtos", ProdB) }

FairNext ==
    \/ \E i \in ReqIds : \E in \in FairInputs : Receive(i, in)
    \/ Step

FairSpec ==
    /\ Init /\ [][FairNext]_vars
    /\ \A i \in ReqIds :
          /\ WF_vars(ConnectOk(i) \/ ConnectFail(i))
          /\ WF_vars(ExecuteOk(i) \/ ExecuteFail(i))
          /\ WF_vars(Resume(i))

\* ------------------------------------------- the uncached server (src/app.js)
\* res.json / res.status(201).json of the uncached server
AppJson(a, st, body) == [a EXCEPT !.status = st, !.resp = body]

\* its error handler: res.status(err.status || 500); res.send({message, error})
AppError(a, err) == [a EXCEPT !.status = ErrStatus(err), !.resp = ErrorBody(err.message)]

\* One request through the uncached server, from the connection middleware
\* to the response; connOk and stmtOk are the outcomes of createConnection
\* and of the statement. Its clients are sequential, so the request runs
\* alone.
AppHandler(a, in, connOk, stmtOk) ==
    LET c == in.url.coll
        id == in.url.id
    IN  IF ~connOk THEN AppError(a, Err(ConnectMsg))
        ELSE IF c \notin Collections THEN AppError(a, HttpError(404, "Not Found"))
        ELSE IF in.method \in {"POST", "PUT"} /\ Invalid(in.body, c)
             THEN AppError(a, Err(ValidationMsg(c)))
        ELSE IF ~stmtOk THEN AppError(a, Err(StatementMsg))
        ELSE IF in.method = "GET"
             THEN IF id = 0 THEN AppJson(a, 200, RowsBody(SelectAll(a.db, c)))
                  ELSE IF SelectById(a.db, c, id) = {}
                       THEN AppError(a, Err(NotFoundMsg(c)))
                       ELSE AppJson(a, 200,
                                    RowBody(CHOOSE row \in SelectById(a.db, c, id) : TRUE))
        ELSE IF in.method = "POST"
             THEN IF a.nextId[c] > MaxId THEN AppError(a, Err(StatementMsg))
                  ELSE AppJson([a EXCEPT !.db[c][a.nextId[c]] = Params(in.body, c),
                                         !.nextId[c] = @ + 1],
                               201, CreatedBody(a.nextId[c], in.body, c, CreatedMsg(c)))
        ELSE IF a.db[c][id] = NoRow THEN AppError(a, Err(NotFoundMsg(c)))
        ELSE IF in.method = "PUT"
             THEN AppJson([a EXCEPT !.db[c][id] = Params(in.body, c)],
                          200, MsgBody(UpdatedMsg(c)))
        ELSE AppJson([a EXCEPT !.db[c][id] = NoRow], 200, MsgBody(DeletedMsg(c)))

\* The uncached server serves the request the cached server has just
\* completed, with the same outcomes of the connection and of the statement;
\* a statement that only the uncached server issues (the cached server
\* answered from its cache) succeeds.
AppServe ==
    /\ InFlight = {}
    /\ app.served < received
    /\ app' = [AppHandler(app, [method |-> last.method, url |-> last.url,
                                body |-> last.body],
                          last.db, IF last.nstmts > 0 THEN last.result.ok ELSE TRUE)
                 EXCEPT !.served = @ + 1]
    /\ UNCHANGED <<db, nextId, cache, now, reqs, last, received, openConns, applied,
                   responded, deleted>>

\* Both servers behind sequential clients: a request is sent to the cached
\* server when both have answered the previous one, and every change of the
\* data goes through the API.
PairInputs ==
    { Get(Url("produtos", 1, "")),
      Get(Url("produtos", 0, "?x=1")),
      Post("produtos", ProdB),
      Delete("produtos", 1) }

\* Both servers start on tables with the same rows.
PairInit ==
    /\ \E filled \in 0..MaxId :
          db = [c \in Collections |->
                  [i \in Ids |-> IF i <= filled THEN InitRow(c) ELSE NoRow]]
    /\ nextId = [c \in Collections |-> 1 + Cardinality({ i \in Ids : db[c][i] # NoRow })]
    /\ cache = FlushAll
    /\ now = 0
    /\ reqs = [i \in ReqIds |-> IdleReq]
    /\ last = IdleReq
    /\ received = 0
    /\ openConns = 0
    /\ applied = [c \in Collections |-> 0]
    /\ responded = [c \in Collections |-> 0]
    /\ deleted = [c \in Collections |-> {}]
    /\ app = [db |-> db, nextId |-> nextId, served |-> 0, status |-> 0, resp |-> NoResp]

PairReceive(in) == app.served = received /\ SeqReceive(in)

PairNext ==
    \/ \E in \in PairInputs : PairReceive(in)
    \/ Step
    \/ AppServe

PairSpec == PairInit /\ [][PairNext]_vars

\* ================================================================ claims
\* The request in slot i completes in this step; last' is its final record.
Finishes(i) == reqs[i].pc # "Idle" /\ reqs'[i].pc = "Idle"

\* createConnection resolves for the request in slot i in this step.
Connects(i) ==
    reqs[i].pc = "Received" /\ reqs'[i] # reqs[i] /\ openConns' = openConns + 1

\* The body lacks a field its collection requires.
Lacks(b, c) == \E f \in Columns(c) : f \notin DOMAIN b

\* A valid product payload: a non-empty nome and a numeric preco, zero included.
ValidProduct(b) ==
    /\ DOMAIN b = {"nome", "preco"}
    /\ b.nome.t = "string" /\ b.nome.s # ""
    /\ b.preco.t = "number"

\* What a GET handler answers from the rows its statement returned.
AnswerFromRows(r) ==
    IF r.url.id = 0 THEN RowsBody(r.result.rows)
    ELSE IF r.result.rows = {} THEN ErrorBody(NotFoundMsg(r.url.coll))
    ELSE RowBody(CHOOSE row \in r.result.rows : TRUE)

\* What the tables hold for the URL of a GET.
RowsFor(d, u) == IF u.id = 0 THEN SelectAll(d, u.coll) ELSE SelectById(d, u.coll, u.id)

\* C1: a GET that arrived after the response of a successful mutation of its
\* collection is never answered from a cache entry whose body was read from
\* the collection before that mutation.
C1_NoStaleHit ==
    (last.pc = "Done" /\ last.method = "GET" /\ last.hit)
        => last.servedVer >= last.arrVer

\* C2: with non-overlapping requests, the step that ends a successful POST,
\* PUT or DELETE leaves the cache empty, and the GET that follows it misses,
\* executes one statement and answers with what the tables hold when the
\* statement runs, direct changes of the database included.
FollowsMutation(i) ==
    /\ reqs[i].method = "GET" /\ reqs[i].url \in GetUrls
    /\ Mutating(last) /\ Succeeded(last)

C2_FlushThenReread ==
    [][\A i \in ReqIds :
        /\ (Finishes(i) /\ Mutating(reqs[i]) /\ Succeeded(last'))
              => cache' = FlushAll
        /\ (FollowsMutation(i) /\ Connects(i))
              => /\ reqs'[i].pc = "Executing"
                 /\ reqs'[i].nstmts = 1
        /\ (FollowsMutation(i) /\ reqs[i].pc = "Executing" /\ reqs'[i].pc = "Awaiting"
                /\ reqs'[i].result.ok)
              => reqs'[i].result.rows = RowsFor(db, reqs[i].url)
        /\ (FollowsMutation(i) /\ Finishes(i) /\ reqs[i].pc = "Awaiting"
                /\ reqs[i].result.ok)
              => /\ last'.resp = AnswerFromRows(reqs[i])
                 /\ ~last'.hit
                 /\ last'.nstmts = 1
      ]_vars

\* a DELETE of a customer has flushed the entry of /produtos?x=1, and the
\* GET of /produtos?x=1 that follows it has read the product table again
C2_Witness ==
    /\ Mutating(last) /\ Succeeded(last)
    /\ last.method = "DELETE" /\ last.url.coll = "clientes"
    /\ reqs[1].pc = "Awaiting" /\ reqs[1].method = "GET"
    /\ reqs[1].url = Url("produtos", 0, "?x=1")
    /\ reqs[1].url \in last.dropped
    /\ reqs[1].result.ok /\ reqs[1].result.rows # {}

\* C3: every cache entry holds the body of a successful GET (a list of rows
\* or a row), never an error body.
C3_OnlySuccessBodies ==
    \A k \in Keys : cache[k] # NoEntry => cache[k].v.kind \in {"rows", "row"}

\* C4: the step that ends a failed POST, PUT or DELETE (validation failure,
\* zero rows matched, statement error, connection error) leaves the cache
\* exactly as it was.
C4_FailedMutationKeepsCache ==
    [][\A i \in ReqIds :
        (Finishes(i) /\ Mutating(reqs[i]) /\ ~Succeeded(last')) => cache' = cache
      ]_vars

\* a DELETE or PUT that matched no row has failed and the cache still holds entries
C4_Witness ==
    /\ last.pc = "Done" /\ last.method \in {"PUT", "DELETE"}
    /\ last.nstmts = 1 /\ last.result.ok /\ last.result.affectedRows = 0
    /\ last.status >= 400
    /\ Cached(cache) # {}

\* C5: a POST or PUT whose body lacks a required field ends at once, with a
\* failure carrying the validation message, with no statement issued, and
\* with the tables unchanged.
C5_ValidationBeforeStatement ==
    [][\A i \in ReqIds :
        (/\ reqs[i].pc = "Received" /\ reqs[i].method \in {"POST", "PUT"}
         /\ Lacks(reqs[i].body, reqs[i].url.coll)
         /\ reqs'[i] # reqs[i])
        => /\ reqs'[i].pc = "Idle"
           /\ last'.nstmts = 0
           /\ last'.status >= 400
           /\ last'.db => last'.resp = ErrorBody(ValidationMsg(reqs[i].url.coll))
           /\ db' = db /\ nextId' = nextId
      ]_vars

\* a PUT without email on an existing customer has failed; the row is there
C5_Witness ==
    /\ last.pc = "Done" /\ last.method = "PUT" /\ last.url.coll = "clientes"
    /\ Lacks(last.body, "clientes") /\ last.db
    /\ last.nstmts = 0 /\ last.status >= 400
    /\ db["clientes"][last.url.id] = CliA

\* C6: a POST or PUT whose body lacks a required field is answered with a
\* 400-class status and the validation message.
C6_ValidationIs400 ==
    (/\ last.pc = "Done" /\ last.method \in {"POST", "PUT"} /\ last.db
     /\ Lacks(last.body, last.url.coll))
    => /\ last.status \in 400..499
       /\ last.resp = ErrorBody(ValidationMsg(last.url.coll))

\* C7: a POST /produtos with a valid payload (zero preco included) whose
\* connection and statement did not fail is answered 201 with the generated id.
C7_ValidPostCreated ==
    (/\ last.pc = "Done" /\ last.method = "POST" /\ last.url.coll = "produtos"
     /\ ValidProduct(last.body) /\ last.db
     /\ (last.nstmts = 0 \/ last.result.ok))
    => /\ last.status = 201
       /\ last.resp.kind = "created"

\* C8: a GET by id that arrived after the success response of a DELETE of
\* that id (the id not created since), and whose connection and statement
\* did not fail, is answered with the not-found condition, not the entity.
C8_DeletedStaysGone ==
    (/\ last.pc = "Done" /\ last.method = "GET" /\ last.gone /\ last.db
     /\ (last.hit \/ last.result.ok))
    => last.resp = ErrorBody(NotFoundMsg(last.url.coll))

\* C9: a GET whose key is present and unexpired is answered with the cached
\* body and issues no statement; a GET whose key is absent issues exactly one
\* statement and, when the statement succeeds, the cache then maps the key to
\* the body that was sent.
Unexpired(k) == cache[k] # NoEntry /\ cache[k].t >= now

C9_HitOrMiss ==
    [][\A i \in ReqIds :
        LET r == reqs[i] IN
        /\ (r.method = "GET" /\ r.url \in GetUrls /\ Connects(i) /\ Unexpired(r.url))
              => /\ Finishes(i)
                 /\ last'.resp = cache[r.url].v
                 /\ last'.status = 200
                 /\ last'.nstmts = 0
        /\ (r.method = "GET" /\ r.url \in GetUrls /\ Connects(i) /\ cache[r.url] = NoEntry)
              => /\ reqs'[i].pc = "Executing"
                 /\ reqs'[i].nstmts = 1
        /\ (r.method = "GET" /\ r.pc = "Awaiting" /\ Finishes(i) /\ r.result.ok)
              => /\ last'.nstmts = 1
                 /\ cache'[r.url] # NoEntry
                 /\ cache'[r.url].v = last'.resp
      ]_vars

\* time has passed, and a GET was answered from an entry still within its TTL
C9_Witness ==
    /\ last.pc = "Done" /\ last.method = "GET" /\ last.hit
    /\ now > 0
    /\ Unexpired(last.url)
    /\ last.resp = cache[last.url].v
    /\ last.nstmts = 0

\* C10: the cache key is the whole URL, query string included: a GET that
\* populates the cache writes the entry of its own URL and no other, a GET
\* is a hit exactly when its own URL has an entry, and the hit returns the
\* body stored under that URL.
C10_ExactKey ==
    [][\A i \in ReqIds :
        LET r == reqs[i] IN
        /\ (r.method = "GET" /\ r.pc = "Awaiting" /\ Finishes(i))
              => /\ cache'[r.url] # NoEntry
                 /\ cache'[r.url].v = last'.resp
                 /\ \A k \in Keys \ {r.url} : cache'[k] = cache[k]
        /\ (r.method = "GET" /\ r.url \in GetUrls /\ Connects(i))
              => /\ Finishes(i) <=> cache[r.url] # NoEntry
                 /\ Finishes(i) => (last'.resp = cache[r.url].v /\ cache' = cache)
                 /\ ~Finishes(i) => cache' = cache
      ]_vars

\* /produtos?x=1 and /produtos?x=2 hold different bodies, and a GET of
\* /produtos?x=1 was answered with the body stored under /produtos?x=1
C10_Witness ==
    LET k1 == Url("produtos", 0, "?x=1")
        k2 == Url("produtos", 0, "?x=2")
    IN  /\ cache[k1] # NoEntry /\ cache[k2] # NoEntry
        /\ cache[k1].v # cache[k2].v
        /\ last.pc = "Done" /\ last.hit /\ last.url = k1
        /\ last.resp = cache[k1].v

\* C11: an entry stored at time s expires at s + TTL; a GET whose lookup
\* happens later than that takes the miss path (the override is installed,
\* one statement is issued, nothing is answered from the cache), with or
\* without a mutation or a flushAll in between.
C11_ExpiredIsAbsent ==
    [][\A i \in ReqIds :
        LET r == reqs[i] IN
        (/\ r.method = "GET" /\ r.url \in GetUrls /\ Connects(i)
         /\ cache[r.url] # NoEntry /\ now > cache[r.url].t)
        => /\ reqs'[i].pc = "Executing"
           /\ reqs'[i].overridden /\ ~reqs'[i].hit
           /\ reqs'[i].nstmts = 1
      ]_vars

\* no mutation was ever executed (so no flushAll ran), the last GET stored
\* its answer, and after more than TTL the next GET of the same URL found
\* the entry expired and is reading the table
C11_Witness ==
    /\ applied = [c \in Collections |-> 0]
    /\ last.pc = "Done" /\ last.method = "GET" /\ last.overridden
    /\ last.resp.kind \in {"rows", "row"}
    /\ InFlight = {1}
    /\ reqs[1].pc = "Executing" /\ reqs[1].method = "GET" /\ reqs[1].url = last.url
    /\ cache[last.url] = NoEntry
    /\ now > TTL

\* createConnection rejects for the request in slot i in this step.
ConnectFails(i) ==
    reqs[i].pc = "Received" /\ reqs'[i] # reqs[i] /\ openConns' = openConns

\* C12: a request that has not got its connection has run no handler or
\* cache logic (no lookup answered, no override installed, no statement, no
\* response), and whatever issued a statement, answered from the cache or
\* installed the override holds a connection. When createConnection rejects,
\* the request ends in that step with status 500 and the connection error's
\* message, with no statement, and the cache and the tables are untouched,
\* also when the cache holds an unexpired entry for the GET's URL.
C12_ConnectionFirst ==
    [][\A i \in ReqIds :
        /\ reqs[i].pc = "Received"
              => /\ ~reqs[i].db /\ ~reqs[i].overridden /\ ~reqs[i].hit
                 /\ reqs[i].nstmts = 0 /\ reqs[i].nresp = 0
        /\ reqs'[i].pc \in {"Executing", "Awaiting"} => reqs'[i].db
        /\ (Finishes(i) /\ (last'.hit \/ last'.overridden \/ last'.nstmts > 0))
              => last'.db
        /\ ConnectFails(i)
              => /\ Finishes(i)
                 /\ last'.status \in 500..599
                 /\ last'.resp = ErrorBody(ConnectMsg)
                 /\ last'.nstmts = 0 /\ ~last'.hit /\ ~last'.overridden
                 /\ cache' = cache /\ db' = db
      ]_vars

\* a GET whose connection failed was answered 500 while the cache holds an
\* unexpired list under its URL
C12_Witness ==
    /\ last.pc = "Done" /\ last.method = "GET" /\ ~last.db
    /\ last.status = 500 /\ last.resp = ErrorBody(ConnectMsg)
    /\ Unexpired(last.url) /\ cache[last.url].v.kind = "rows"

\* C13: the connections that are open never outnumber the requests in
\* flight: a request that has sent its response has released its connection.
C13_ConnectionsReleased ==
    openConns <= Cardinality(InFlight)

\* The last request was a GET that missed the cache and answered with rows.
MissSucceeded(r) ==
    /\ r.pc = "Done" /\ r.method = "GET" /\ r.overridden
    /\ r.resp.kind \in {"rows", "row"}

\* C14 (as stated): on a GET cache miss that succeeds the response is sent
\* before the cache is written.
C14_RespondThenPopulate ==
    MissSucceeded(last) => (last.sendSeq # 0 /\ last.sendSeq < last.setSeq)

\* C14 (amended): on a GET cache miss that succeeds the cache is written
\* first and the response is sent next, in the same uninterrupted step of
\* the handler: the step that ends the request stores the body under the
\* request's key before it sends it, and the write never follows the send.
C14_PopulateThenRespond ==
    [][\A i \in ReqIds :
        (Finishes(i) /\ MissSucceeded(last'))
        => /\ reqs[i].pc = "Awaiting"
           /\ last'.setSeq # 0 /\ last'.setSeq < last'.sendSeq
           /\ last'.nresp = 1
           /\ cache'[last'.url] # NoEntry /\ cache'[last'.url].v = last'.resp
      ]_vars

\* a GET of the product list missed, stored its rows and then sent them
C14_Witness ==
    /\ MissSucceeded(last) /\ last.url = Url("produtos", 0, "?x=1")
    /\ last.resp.rows # {}
    /\ last.setSeq = 1 /\ last.sendSeq = 2
    /\ cache[last.url] # NoEntry /\ cache[last.url].v = last.resp

\* C15: an entry's expiry depends only on its last cache.set. A hit leaves
\* the entry as it is; a store sets the expiry to the time of the store plus
\* TTL, also when the key already holds an entry; the expiry of an entry
\* that stays in the cache changes in no other step.
C15_ExpiryFromLastSet ==
    [][/\ \A i \in ReqIds :
            LET r == reqs[i] IN
            /\ (r.method = "GET" /\ r.url \in GetUrls /\ Connects(i) /\ Unexpired(r.url))
                  => /\ Finishes(i) /\ last'.hit
                     /\ cache'[r.url] = cache[r.url]
            /\ (r.method = "GET" /\ r.pc = "Awaiting" /\ Finishes(i))
                  => cache'[r.url].t = now + TTL
       /\ \A k \in Keys :
            (cache[k] # NoEntry /\ cache'[k] # NoEntry /\ cache'[k].t # cache[k].t)
            => \E i \in ReqIds :
                  /\ reqs[i].method = "GET" /\ reqs[i].pc = "Awaiting" /\ Finishes(i)
                  /\ reqs[i].url = k
                  /\ cache'[k].t = now + TTL
      ]_vars

\* the last GET stored its answer under a key that held an entry, and the
\* entry now expires a full TTL from this later store
C15_Witness ==
    /\ last.pc = "Done" /\ last.method = "GET" /\ last.overridden
    /\ last.overT # 0
    /\ cache[last.url] # NoEntry
    /\ cache[last.url].t = now + TTL
    /\ cache[last.url].t > last.overT

\* The statement of the request in slot i has returned and its handler
\* resumes in this step.
Resumes(i) == reqs[i].pc = "Awaiting" /\ reqs'[i] # reqs[i]

\* C16: a GET by id that finds no row and a PUT or DELETE that matches no
\* row are answered 500 with the not-found message; a request that matches
\* no route is answered 404; a connection failure and a statement failure
\* are answered 500 with the error's message. Every failure response is the
\* error handler's body {message, error}, and a handler's own response is
\* never a failure.
C16_ErrorTranslation ==
    [][\A i \in ReqIds :
        LET r == reqs[i] IN
        /\ (Connects(i) /\ r.url.coll \notin Collections)
              => /\ Finishes(i) /\ last'.status = 404
                 /\ last'.resp = ErrorBody("Not Found")
        /\ ConnectFails(i)
              => /\ Finishes(i) /\ last'.status = 500
                 /\ last'.resp = ErrorBody(ConnectMsg)
        /\ (Resumes(i) /\ ~r.result.ok)
              => /\ Finishes(i) /\ last'.status = 500
                 /\ last'.resp = ErrorBody(StatementMsg)
        /\ (Resumes(i) /\ r.result.ok /\ r.method = "GET" /\ r.url.id # 0
                /\ r.result.rows = {})
              => /\ Finishes(i) /\ last'.status = 500
                 /\ last'.resp = ErrorBody(NotFoundMsg(r.url.coll))
        /\ (Resumes(i) /\ r.result.ok /\ r.method \in {"PUT", "DELETE"}
                /\ r.result.affectedRows = 0)
              => /\ Finishes(i) /\ last'.status = 500
                 /\ last'.resp = ErrorBody(NotFoundMsg(r.url.coll))
        /\ (Finishes(i) /\ last'.status >= 400) => last'.resp.kind = "error"
        /\ (Finishes(i) /\ ~last'.hit /\ last'.resp.kind = "error") => last'.status >= 400
      ]_vars

\* a GET of a customer that does not exist was answered 500 with the
\* not-found message
C16_Witness ==
    /\ last.pc = "Done" /\ last.method = "GET" /\ last.url = Url("clientes", 1, "")
    /\ ~last.hit /\ last.nstmts = 1 /\ last.result.ok /\ last.result.rows = {}
    /\ last.status = 500 /\ last.resp = ErrorBody(NotFoundMsg("clientes"))

\* C17: a request calls createConnection once and issues at most one
\* statement; when the connection or the statement fails, the request's
\* next step ends it with a failure response, with no second connection and
\* no second statement.
C17_NoRetry ==
    [][\A i \in ReqIds :
        /\ reqs'[i].nstmts <= 1 /\ reqs'[i].nconn <= 1
        /\ last'.nstmts <= 1 /\ last'.nconn <= 1
        /\ ConnectFails(i)
              => /\ Finishes(i) /\ last'.status >= 400
                 /\ last'.nconn = 1 /\ last'.nstmts = 0
        /\ (Resumes(i) /\ ~reqs[i].result.ok)
              => /\ Finishes(i) /\ last'.status >= 400
                 /\ last'.nconn = 1 /\ last'.nstmts = 1
      ]_vars

\* a POST whose INSERT failed was answered 500 after that one statement
C17_Witness ==
    /\ last.pc = "Done" /\ last.method = "POST" /\ last.db
    /\ last.nstmts = 1 /\ last.nconn = 1 /\ ~last.result.ok
    /\ last.status = 500 /\ last.resp = ErrorBody(StatementMsg)

\* C18: every request ends with exactly one response. No request in flight
\* has sent a response, a completed request has sent exactly one, and, when
\* connection attempts and statements settle, every request received is
\* eventually completed, on every path (cache hit, miss answered through the
\* overridden res.json with rows or with an error, mutation with and without
\* flushAll, connection failure, unmatched route).
C18_ExactlyOneResponse ==
    /\ [](/\ \A i \in ReqIds : reqs[i].nresp = 0
          /\ last.pc = "Done" => last.nresp = 1)
    /\ \A i \in ReqIds : (reqs[i].pc # "Idle") ~> (reqs[i].pc = "Idle")

\* all the requests were received and completed, the last of them a GET
\* whose miss failed and was answered once through the overridden res.json
C18_Witness ==
    /\ received = MaxReqs /\ InFlight = {}
    /\ last.pc = "Done" /\ last.method = "GET" /\ last.overridden
    /\ last.status = 500 /\ last.nresp = 1

\* C19: for sequential clients the cache is transparent: once both servers
\* have answered a request, the cached server's status and body are the
\* uncached server's.
C19_CacheTransparent ==
    (InFlight = {} /\ received > 0 /\ app.served = received)
        => (last.status = app.status /\ last.resp = app.resp)

====
